---- MODULE Spec2Model ----
(***************************************************************************)
(* The asynchronous analysis pipeline of lighthouse: HTTP intake           *)
(* (routes/analysis.routes.ts), the BullMQ analysis queue                  *)
(* (config/queue.ts), the record store (analysis.repository.ts,            *)
(* file-tree.repository.ts, dependency.repository.ts), the clone service   *)
(* and the six-step worker (workers/analysis.worker.ts); the tree walker   *)
(* and the metrics computed from its tree (tree-builder.service.ts,        *)
(* MetricsService); the middleware a request passes before its route       *)
(* handler (app.ts, middleware/rate-limit.ts); the commit identifiers of   *)
(* an analysis under pushes to its branch; the parse step (ParserService   *)
(* and the language parsers); the server process from listening to exit    *)
(* (server.ts).                                                            *)
(*                                                                         *)
(* Every await of a handler is one step: another handler or the worker may *)
(* run between two awaits.  Every store call and every external call may   *)
(* throw.  Timestamps are modelled by whether they are set.                *)
(***************************************************************************)
EXTENDS Integers, FiniteSets, Sequences, TLC

\* The analyses followed.  Records, jobs, rows and clone directories are keyed
\* by the analysis id; no operation reads or writes another id's state.
AnalysisIds == {"a1"}

\* defaultJobOptions.attempts
MaxAttempts == 3

NoRec == [status |-> "absent"]
NoErr == "none"
NoDir == <<>>

VARIABLES
  rec,              \* Analysis table: id -> row, or NoRec
  fileTree,         \* FileTree table: id -> a row exists
  parsedFiles,      \* ParsedFile table: id -> rows exist
  job,              \* the queue: id -> [state, attemptsMade, progress],
                    \*   progress being the percentage last published
  pc,               \* position of the worker's attempt on the job
  localPath,        \* cloneResult.localPath of the running attempt
  thrown,           \* the error caught by the attempt's catch block
  parsed,           \* parsedFiles.length > 0 in the running attempt
  disk,             \* clone directories that exist under CLONE_BASE_PATH
  post,             \* position of the POST /analyze handler for the id
  statusReq,        \* GET /:id/status handler: the row it read, if in flight
  postAnswer,       \* status code POST /analyze answered, or NoAnswer
  upstream,         \* what the metadata API did on the handler's last call
  everProcessing,   \* history: the row's status has been processing
  termDir,          \* history: localPath of the attempt that wrote the last
                    \*   completed/failed status
  lastThrown,       \* history: message of the error the last attempt threw
  seenCompleted,    \* history: a status response carried status=completed
  treeAfter,        \* history: last /tree response after seenCompleted
  cancelled,        \* history: cancelJob has removed the id's job
  fetchThrows,      \* history: attempts in which fetchRepoMetadata threw
  fetchError,       \* history: message of the last error fetchRepoMetadata
                    \*   threw
  treeFromFailed,   \* history: a FileTree row is left by an attempt that failed
  deletedWaiting,   \* history: the record was deleted while its job waited,
                    \*   no attempt made
  cancelledWaiting, \* history: cancelJob removed the job while it waited, no
                    \*   attempt made
  completedSeen,    \* history: <<percentage, job read>> of the status
                    \*   responses with status=completed and the job retained
  \* the tree walker and the metrics, followed for one working copy
  workingCopy,      \* relative paths of the entries under the root
  options,          \* the options buildFileTree is called with
  noMetadata,       \* files for which getFileMetadata returns null
  unreadable,       \* entries for which fs.stat throws
  linkTarget,       \* what the symbolic link of the working copy points to
  walk,             \* position: start, built, measured, saved, served
  tree,             \* the node buildFileTree returned
  statistics,       \* the statistics calculateMetrics returned
  artifact,         \* the FileTree row fileTreeRepository.save wrote
  treeBody,         \* statistics in the body of GET /analysis/:id/tree
  \* the middleware chain, followed for one client IP
  nodeEnv,          \* env.NODE_ENV
  apiKey,           \* env.API_KEY, or NoKey
  strictHits,       \* strictRateLimiter: hits counted in the current window
  sent,             \* POST /analyze requests sent in the current window
  passed,           \* of these, the requests that passed strictRateLimiter
  request,          \* route -> the last request to it
  response,         \* route -> the answer to that request
  \* the commit identifiers of one analysis, followed through its attempts
  head,             \* the commit at the head of the analysed branch
  step,             \* the attempt's position in processAnalysisJob
  attempts,         \* attempts of the job that have thrown
  commitSha,        \* the attempt's constant commitSha
  storedSha,        \* Analysis.commitSha of the record
  cloneSha,         \* cloneResult.commitSha: the commit of the working copy
  recordStatus,     \* Analysis.status of the record
  \* the parse step on the files of one working copy
  condition,        \* file -> what reading and parsing it runs into
  parseResult,      \* file -> what parserService.parseFile resolved to
  parsedRows,       \* the ParsedFile rows saved for the analysis
  parseStep,        \* position of the worker in steps 7 and 8
  \* the server process, from listening to exit
  listening,        \* the HTTP listener accepts connections
  inflight,         \* handlers that have not finished
  signalled,        \* gracefulShutdown has run
  database,         \* the database connection: open, closing, closed
  redis,            \* the two Redis clients: open, closing, closed
  queue,            \* analysisQueue: open, closing, closed
  exited,           \* process.exit code, or NoExit
  elapsed           \* seconds since gracefulShutdown armed its timer

\* The history variables that only Rethrow, cancelJob, delete and the status
\* handler write.
lateHist == <<treeFromFailed, deletedWaiting, cancelledWaiting, completedSeen>>

workerVars == <<rec, fileTree, parsedFiles, job, pc, localPath, thrown, parsed, disk,
          post, postAnswer, upstream,
          statusReq, everProcessing, termDir, lastThrown, seenCompleted,
          treeAfter, cancelled, fetchThrows, fetchError, lateHist>>

walkerVars == <<workingCopy, options, noMetadata, unreadable, linkTarget,
                walk, tree, statistics, artifact, treeBody>>

frontVars == <<nodeEnv, apiKey, strictHits, sent, passed, request, response>>

commitVars == <<head, step, attempts, commitSha, storedSha, cloneSha,
                recordStatus>>

parserVars == <<condition, parseResult, parsedRows, parseStep>>

shutdownVars == <<listening, inflight, signalled, database, redis, queue,
                  exited, elapsed>>

\* The variables of the components that follow the front door.
laterVars == <<commitVars, parserVars, shutdownVars>>

vars == <<workerVars, walkerVars, frontVars, laterVars>>

storeVars == <<rec, fileTree, parsedFiles>>
histVars == <<everProcessing, termDir, lastThrown, seenCompleted, treeAfter,
              cancelled, fetchThrows, fetchError, lateHist>>
httpVars == <<post, statusReq, postAnswer, upstream>>

\* No answer sent by POST /analyze yet.
NoAnswer == "none"

\* A job as the queue creates it: no attempt made, progress 0.
NoJob == [state |-> "absent", attemptsMade |-> 0, progress |-> 0]

----------------------------------------------------------------------------
\* Record store

\* AnalysisRepository.create: the row inserted by intake
NewRecord ==
  [status |-> "queued", startedAt |-> FALSE, completedAt |-> FALSE,
   error |-> NoErr]

\* AnalysisRepository.updateStatus: the row after the update
UpdateStatus(r, status, error) ==
  LET r1 == [r EXCEPT !.status = status]
      r2 == IF status = "processing" /\ error = NoErr
              THEN [r1 EXCEPT !.startedAt = TRUE]
              ELSE IF status = "completed" \/ status = "failed"
                     THEN [r1 EXCEPT !.completedAt = TRUE]
                     ELSE r1
  IN  IF error # NoErr THEN [r2 EXCEPT !.error = error] ELSE r2

Exists(id) == rec[id] # NoRec

----------------------------------------------------------------------------
\* Worker pipeline

\* Percentage with the clone and tree-build percentages exchanged.
PercentageCloneAhead ==
  [p0 |-> 0, p10 |-> 10, p20 |-> 40, p40 |-> 20, p50 |-> 50, p65 |-> 65,
   p85 |-> 85, p100 |-> 100]

\* Percentage with the last update publishing 85 again.
PercentageNoFinal ==
  [p0 |-> 0, p10 |-> 10, p20 |-> 20, p40 |-> 40, p50 |-> 50, p65 |-> 65,
   p85 |-> 85, p100 |-> 85]

\* The percentage published on entry to each step.
Percentage ==
  [p0 |-> 0, p10 |-> 10, p20 |-> 20, p40 |-> 40, p50 |-> 50, p65 |-> 65,
   p85 |-> 85, p100 |-> 100]

\* The call that follows each progress update.
AfterProgress ==
  [p0 |-> "p10", p10 |-> "fetch", p20 |-> "clone", p40 |-> "tree",
   p50 |-> "saveTree", p65 |-> "scan", p85 |-> "saveParsed",
   p100 |-> "complete"]

Goto(id, l) == pc' = [pc EXCEPT ![id] = l]

\* An await rejects inside the try block: control moves to the catch block.
Throw(id, msg) ==
  /\ pc' = [pc EXCEPT ![id] = "catch"]
  /\ thrown' = [thrown EXCEPT ![id] = msg]

WorkerInit ==
  /\ rec = [id \in AnalysisIds |-> NoRec]
  /\ fileTree = [id \in AnalysisIds |-> FALSE]
  /\ parsedFiles = [id \in AnalysisIds |-> FALSE]
  /\ job = [id \in AnalysisIds |-> NoJob]
  /\ pc = [id \in AnalysisIds |-> "idle"]
  /\ localPath = [id \in AnalysisIds |-> NoDir]
  /\ thrown = [id \in AnalysisIds |-> NoErr]
  /\ parsed = [id \in AnalysisIds |-> FALSE]
  /\ disk = {}
  /\ post = [id \in AnalysisIds |-> "new"]
  /\ postAnswer = [id \in AnalysisIds |-> NoAnswer]
  /\ upstream = [id \in AnalysisIds |-> "none"]
  /\ statusReq = [id \in AnalysisIds |-> NoRec]
  /\ everProcessing = [id \in AnalysisIds |-> FALSE]
  /\ termDir = [id \in AnalysisIds |-> NoDir]
  /\ lastThrown = [id \in AnalysisIds |-> NoErr]
  /\ seenCompleted = [id \in AnalysisIds |-> FALSE]
  /\ treeAfter = [id \in AnalysisIds |-> "none"]
  /\ cancelled = [id \in AnalysisIds |-> FALSE]
  /\ fetchThrows = [id \in AnalysisIds |-> 0]
  /\ fetchError = [id \in AnalysisIds |-> NoErr]
  /\ treeFromFailed = [id \in AnalysisIds |-> FALSE]
  /\ deletedWaiting = [id \in AnalysisIds |-> FALSE]
  /\ cancelledWaiting = [id \in AnalysisIds |-> FALSE]
  /\ completedSeen = [id \in AnalysisIds |-> {}]

----------------------------------------------------------------------------
\* What the metadata API does on one call: answers 200, 404, 403, a 5xx, or
\* cannot be reached.
Upstream == {"ok", "notFound", "forbidden", "serverError", "unreachable"}

\* GitHubService.fetchRepoMetadata: the status of the error it throws
\* (BadRequestError on 404, ServiceUnavailableError otherwise), 200 if none
fetchRepoMetadataStatus(u) ==
  IF u = "ok" THEN "200" ELSE IF u = "notFound" THEN "400" ELSE "503"

\* GitHubService.verifyAccess: fetchRepoMetadata inside try/catch
verifyAccess(u) == fetchRepoMetadataStatus(u) = "200"

PostAnswer(id, status) == postAnswer' = [postAnswer EXCEPT ![id] = status]

\* POST /analyze (router.post('/')): parse the URL, then verifyAccess
PostVerify(id) ==
  /\ post[id] = "new"
  /\ \E validUrl \in BOOLEAN, u \in Upstream :
       IF ~validUrl
         THEN /\ post' = [post EXCEPT ![id] = "rejected"]
              /\ PostAnswer(id, "400")
              /\ UNCHANGED upstream
         ELSE /\ upstream' = [upstream EXCEPT ![id] = u]
              /\ IF verifyAccess(u)
                   THEN /\ post' = [post EXCEPT ![id] = "verified"]
                        /\ UNCHANGED postAnswer
                   ELSE /\ post' = [post EXCEPT ![id] = "rejected"]
                        /\ PostAnswer(id, "404")
  /\ UNCHANGED <<storeVars, job, pc, localPath, thrown, parsed, disk,
                 statusReq, histVars>>
  /\ UNCHANGED <<walkerVars, frontVars, laterVars>>

\* POST /analyze: detectDefaultBranch when the body names no branch; its
\* error reaches errorHandler, which answers with the error's status code
PostDetectBranch(id) ==
  /\ post[id] = "verified"
  /\ \E hasBranch \in BOOLEAN, u \in Upstream :
       IF hasBranch
         THEN /\ post' = [post EXCEPT ![id] = "ready"]
              /\ UNCHANGED <<postAnswer, upstream>>
         ELSE /\ upstream' = [upstream EXCEPT ![id] = u]
              /\ IF fetchRepoMetadataStatus(u) = "200"
                   THEN /\ post' = [post EXCEPT ![id] = "ready"]
                        /\ UNCHANGED postAnswer
                   ELSE /\ post' = [post EXCEPT ![id] = "rejected"]
                        /\ PostAnswer(id, fetchRepoMetadataStatus(u))
  /\ UNCHANGED <<storeVars, job, pc, localPath, thrown, parsed, disk,
                 statusReq, histVars>>
  /\ UNCHANGED <<walkerVars, frontVars, laterVars>>

\* POST /analyze: analysisRepository.create
PostCreate(id) ==
  /\ post[id] = "ready"
  /\ \/ /\ rec' = [rec EXCEPT ![id] = NewRecord]
        /\ post' = [post EXCEPT ![id] = "created"]
        /\ UNCHANGED postAnswer
     \/ /\ post' = [post EXCEPT ![id] = "error"]
        /\ PostAnswer(id, "500")
        /\ UNCHANGED rec
  /\ UNCHANGED <<fileTree, parsedFiles, job, pc, localPath, thrown, parsed,
                 disk, statusReq, upstream, histVars>>
  /\ UNCHANGED <<walkerVars, frontVars, laterVars>>

\* addAnalysisJob: analysisQueue.add with jobId = analysisId, then 201
PostEnqueue(id) ==
  /\ post[id] = "created"
  /\ \/ /\ job' = [job EXCEPT ![id] = [NoJob EXCEPT !.state = "waiting"]]
        /\ post' = [post EXCEPT ![id] = "done"]
        /\ PostAnswer(id, "201")
     \/ /\ post' = [post EXCEPT ![id] = "error"]
        /\ PostAnswer(id, "500")
        /\ UNCHANGED job
  /\ UNCHANGED <<storeVars, pc, localPath, thrown, parsed, disk, statusReq,
                 upstream, histVars>>
  /\ UNCHANGED <<walkerVars, frontVars, laterVars>>

----------------------------------------------------------------------------
\* The queue hands a waiting job to the worker's processor.
Pick(id) ==
  /\ job[id].state = "waiting"
  /\ pc[id] = "idle"
  /\ job' = [job EXCEPT ![id].state = "active"]
  /\ pc' = [pc EXCEPT ![id] = "start"]
  /\ localPath' = [localPath EXCEPT ![id] = NoDir]
  /\ thrown' = [thrown EXCEPT ![id] = NoErr]
  /\ parsed' = [parsed EXCEPT ![id] = FALSE]
  /\ UNCHANGED <<storeVars, disk, httpVars, histVars>>
  /\ UNCHANGED <<walkerVars, frontVars, laterVars>>

\* await analysisRepository.updateStatus(analysisId, 'processing')
StartProcessing(id) ==
  /\ pc[id] = "start"
  /\ \/ /\ Exists(id)
        /\ rec' = [rec EXCEPT ![id] = UpdateStatus(rec[id], "processing", NoErr)]
        /\ everProcessing' = [everProcessing EXCEPT ![id] = TRUE]
        /\ Goto(id, "p0")
        /\ UNCHANGED thrown
     \/ /\ Throw(id, "store error")
        /\ UNCHANGED <<rec, everProcessing>>
  /\ UNCHANGED <<fileTree, parsedFiles, job, localPath, parsed, disk, httpVars,
                 termDir, lastThrown, seenCompleted, treeAfter, cancelled,
                 fetchThrows, fetchError, lateHist>>
  /\ UNCHANGED <<walkerVars, frontVars, laterVars>>

\* await job.updateProgress({ ..., percentage })
PublishProgress(id) ==
  /\ pc[id] \in DOMAIN Percentage
  /\ \/ /\ job' = [job EXCEPT ![id].progress = Percentage[pc[id]]]
        /\ Goto(id, AfterProgress[pc[id]])
        /\ UNCHANGED thrown
     \/ /\ Throw(id, "progress transport error")
        /\ UNCHANGED job
  /\ UNCHANGED <<storeVars, localPath, parsed, disk, httpVars, histVars>>
  /\ UNCHANGED <<walkerVars, frontVars, laterVars>>

\* An external call that changes no state: it returns or it throws msg.
ExternalCall(id, at, next, msg) ==
  /\ pc[id] = at
  /\ \/ Goto(id, next) /\ UNCHANGED thrown
     \/ Throw(id, msg)
  /\ UNCHANGED <<storeVars, job, localPath, parsed, disk, httpVars, histVars>>
  /\ UNCHANGED <<walkerVars, frontVars, laterVars>>

\* The errors githubService.fetchRepoMetadata throws: 404, 403, any other.
FetchErrors ==
  {"Repository not found", "GitHub API rate limit exceeded",
   "Failed to fetch repository metadata"}

\* githubService.fetchRepoMetadata: returns the metadata or throws
FetchRepoMetadata(id) ==
  /\ pc[id] = "fetch"
  /\ \/ /\ Goto(id, "sha")
        /\ UNCHANGED <<thrown, fetchThrows, fetchError>>
     \/ \E msg \in FetchErrors :
          /\ Throw(id, msg)
          /\ fetchThrows' = [fetchThrows EXCEPT ![id] = @ + 1]
          /\ fetchError' = [fetchError EXCEPT ![id] = msg]
  /\ UNCHANGED <<storeVars, job, localPath, parsed, disk, httpVars,
                 everProcessing, termDir, lastThrown, seenCompleted, treeAfter,
                 cancelled, lateHist>>
  /\ UNCHANGED <<walkerVars, frontVars, laterVars>>

\* githubService.getCommitSha
GetCommitSha(id) ==
  ExternalCall(id, "sha", "saveSha", "Failed to fetch commit SHA")

\* await analysisRepository.updateCommitSha(analysisId, commitSha)
UpdateCommitSha(id) ==
  /\ pc[id] = "saveSha"
  /\ \/ Exists(id) /\ Goto(id, "p20") /\ UNCHANGED thrown
     \/ Throw(id, "store error")
  /\ UNCHANGED <<storeVars, job, localPath, parsed, disk, httpVars, histVars>>
  /\ UNCHANGED <<walkerVars, frontVars, laterVars>>

\* cloneService.cloneRepository: a fresh directory per call (generateId).  A
\* clone that fails removes its directory and throws; when the removal fails
\* too, the partial directory stays.
CloneRepository(id) ==
  LET n == job[id].attemptsMade IN
  /\ pc[id] = "clone"
  /\ \/ /\ disk' = disk \cup {<<id, n, "clone">>}
        /\ localPath' = [localPath EXCEPT ![id] = <<id, n, "clone">>]
        /\ Goto(id, "p40")
        /\ UNCHANGED thrown
     \/ /\ Throw(id, "Failed to clone repository")
        /\ \/ disk' = disk
           \/ disk' = disk \cup {<<id, n, "partial">>}
        /\ UNCHANGED localPath
  /\ UNCHANGED <<storeVars, job, parsed, httpVars, histVars>>
  /\ UNCHANGED <<walkerVars, frontVars, laterVars>>

\* treeBuilderService.buildFileTree (rethrows), then calculateMetrics (pure)
BuildFileTree(id) ==
  ExternalCall(id, "tree", "p50", "tree build error")

\* SaveFileTree with a save that logs a failed insert and returns, as
\* AnalysisRepository.delete and findById do, instead of rethrowing.
SaveFileTreeSwallowsError(id) ==
  /\ pc[id] = "saveTree"
  /\ \/ /\ Exists(id)
        /\ ~fileTree[id]
        /\ fileTree' = [fileTree EXCEPT ![id] = TRUE]
     \/ UNCHANGED fileTree
  /\ Goto(id, "p65")
  /\ UNCHANGED <<rec, parsedFiles, job, localPath, thrown, parsed, disk,
                 httpVars, histVars>>
  /\ UNCHANGED <<walkerVars, frontVars, laterVars>>

\* SaveFileTree with an upsert: an existing row is overwritten.
SaveFileTreeUpsert(id) ==
  /\ pc[id] = "saveTree"
  /\ \/ /\ Exists(id)
        /\ fileTree' = [fileTree EXCEPT ![id] = TRUE]
        /\ Goto(id, "p65")
        /\ UNCHANGED thrown
     \/ /\ Throw(id, "store error")
        /\ UNCHANGED fileTree
  /\ UNCHANGED <<rec, parsedFiles, job, localPath, parsed, disk, httpVars,
                 histVars>>
  /\ UNCHANGED <<walkerVars, frontVars, laterVars>>

\* await fileTreeRepository.save: prisma.fileTree.create, keyed by analysisId
\* with a foreign key to the Analysis row
SaveFileTree(id) ==
  /\ pc[id] = "saveTree"
  /\ \/ /\ Exists(id)
        /\ ~fileTree[id]
        /\ fileTree' = [fileTree EXCEPT ![id] = TRUE]
        /\ Goto(id, "p65")
        /\ UNCHANGED thrown
     \/ /\ Throw(id, "store error")
        /\ UNCHANGED fileTree
  /\ UNCHANGED <<rec, parsedFiles, job, localPath, parsed, disk, httpVars,
                 histVars>>
  /\ UNCHANGED <<walkerVars, frontVars, laterVars>>

\* fileScannerService.scanDirectory: an error is logged and [] returned
ScanDirectory(id) ==
  /\ pc[id] = "scan"
  /\ Goto(id, "parse")
  /\ UNCHANGED <<storeVars, job, localPath, thrown, parsed, disk, httpVars,
                 histVars>>
  /\ UNCHANGED <<walkerVars, frontVars, laterVars>>

\* parserService.shouldParse and parseFilesParallel: a file that cannot be
\* parsed yields null and is filtered out, so the call returns a list that
\* may be empty.
ParseFiles(id) ==
  /\ pc[id] = "parse"
  /\ \E nonEmpty \in BOOLEAN : parsed' = [parsed EXCEPT ![id] = nonEmpty]
  /\ Goto(id, "p85")
  /\ UNCHANGED <<storeVars, job, localPath, thrown, disk, httpVars, histVars>>
  /\ UNCHANGED <<walkerVars, frontVars, laterVars>>

\* SaveParsedFiles with an insert that does not check that the Analysis row
\* exists.
SaveParsedFilesNoForeignKey(id) ==
  /\ pc[id] = "saveParsed"
  /\ \/ /\ ~parsed[id]
        /\ Goto(id, "rm")
        /\ UNCHANGED <<parsedFiles, thrown>>
     \/ /\ parsed[id]
        /\ parsedFiles' = [parsedFiles EXCEPT ![id] = TRUE]
        /\ Goto(id, "rm")
        /\ UNCHANGED thrown
     \/ /\ parsed[id]
        /\ Throw(id, "store error")
        /\ UNCHANGED parsedFiles
  /\ UNCHANGED <<rec, fileTree, job, localPath, parsed, disk, httpVars,
                 histVars>>
  /\ UNCHANGED <<walkerVars, frontVars, laterVars>>

\* if (parsedFiles.length > 0) await dependencyRepository.saveParsedFiles:
\* createMany with skipDuplicates, foreign key to the Analysis row
SaveParsedFiles(id) ==
  /\ pc[id] = "saveParsed"
  /\ \/ /\ ~parsed[id]
        /\ Goto(id, "rm")
        /\ UNCHANGED <<parsedFiles, thrown>>
     \/ /\ parsed[id]
        /\ Exists(id)
        /\ parsedFiles' = [parsedFiles EXCEPT ![id] = TRUE]
        /\ Goto(id, "rm")
        /\ UNCHANGED thrown
     \/ /\ parsed[id]
        /\ Throw(id, "store error")
        /\ UNCHANGED parsedFiles
  /\ UNCHANGED <<rec, fileTree, job, localPath, parsed, disk, httpVars,
                 histVars>>
  /\ UNCHANGED <<walkerVars, frontVars, laterVars>>

\* await cloneService.deleteRepository(cloneResult.localPath)
DeleteRepository(id) ==
  /\ pc[id] = "rm"
  /\ \/ /\ disk' = disk \ {localPath[id]}
        /\ Goto(id, "p100")
        /\ UNCHANGED thrown
     \/ /\ Throw(id, "Failed to delete repository")
        /\ UNCHANGED disk
  /\ UNCHANGED <<storeVars, job, localPath, parsed, httpVars, histVars>>
  /\ UNCHANGED <<walkerVars, frontVars, laterVars>>

\* await analysisRepository.updateStatus(analysisId, 'completed')
MarkCompleted(id) ==
  /\ pc[id] = "complete"
  /\ \/ /\ Exists(id)
        /\ rec' = [rec EXCEPT ![id] = UpdateStatus(rec[id], "completed", NoErr)]
        /\ termDir' = [termDir EXCEPT ![id] = localPath[id]]
        /\ Goto(id, "return")
        /\ UNCHANGED thrown
     \/ /\ Throw(id, "store error")
        /\ UNCHANGED <<rec, termDir>>
  /\ UNCHANGED <<fileTree, parsedFiles, job, localPath, parsed, disk, httpVars,
                 everProcessing, lastThrown, seenCompleted, treeAfter,
                 cancelled, fetchThrows, fetchError, lateHist>>
  /\ UNCHANGED <<walkerVars, frontVars, laterVars>>

\* The processor returns: the queue moves the job to completed.
Return(id) ==
  /\ pc[id] = "return"
  /\ job' = [job EXCEPT ![id].state = "completed"]
  /\ Goto(id, "idle")
  /\ UNCHANGED <<storeVars, localPath, thrown, parsed, disk, httpVars,
                 histVars>>
  /\ UNCHANGED <<walkerVars, frontVars, laterVars>>

\* catch (error): await analysisRepository.updateStatus(analysisId, 'failed',
\* error.message); throw error.  When the update itself rejects, its error
\* leaves the catch block in place of the caught one.
Catch(id) ==
  /\ pc[id] = "catch"
  /\ \/ /\ Exists(id)
        /\ rec' = [rec EXCEPT ![id] = UpdateStatus(rec[id], "failed", thrown[id])]
        /\ termDir' = [termDir EXCEPT ![id] = localPath[id]]
        /\ UNCHANGED thrown
     \/ /\ thrown' = [thrown EXCEPT ![id] = "store error"]
        /\ UNCHANGED <<rec, termDir>>
  /\ Goto(id, "rethrow")
  /\ UNCHANGED <<fileTree, parsedFiles, job, localPath, parsed, disk, httpVars,
                 everProcessing, lastThrown, seenCompleted, treeAfter,
                 cancelled, fetchThrows, fetchError, lateHist>>
  /\ UNCHANGED <<walkerVars, frontVars, laterVars>>

\* The state the queue gives a job whose attempt threw: retried while
\* attempts remain (defaultJobOptions.attempts), failed after the last one.
StateAfterFailure(attemptsMade) ==
  IF attemptsMade < MaxAttempts THEN "waiting" ELSE "failed"

\* The processor throws: the queue counts the attempt.
Rethrow(id) ==
  /\ pc[id] = "rethrow"
  /\ job' = [job EXCEPT ![id].attemptsMade = @ + 1,
                        ![id].state = StateAfterFailure(job[id].attemptsMade + 1)]
  /\ lastThrown' = [lastThrown EXCEPT ![id] = thrown[id]]
  /\ treeFromFailed' = [treeFromFailed EXCEPT ![id] = fileTree[id]]
  /\ Goto(id, "idle")
  /\ UNCHANGED <<storeVars, localPath, thrown, parsed, disk, httpVars,
                 everProcessing, termDir, seenCompleted, treeAfter, cancelled,
                 fetchThrows, fetchError, deletedWaiting, cancelledWaiting,
                 completedSeen>>
  /\ UNCHANGED <<walkerVars, frontVars, laterVars>>

----------------------------------------------------------------------------
\* Queue operations

\* CancelJob with a cancelJob that also marks the record cancelled.
CancelJobMarksRecord(id) ==
  /\ job[id].state \in {"waiting", "completed", "failed"}
  /\ job' = [job EXCEPT ![id] = NoJob]
  /\ rec' = [rec EXCEPT ![id] = IF Exists(id)
                                  THEN UpdateStatus(@, "cancelled", NoErr)
                                  ELSE @]
  /\ cancelled' = [cancelled EXCEPT ![id] = TRUE]
  /\ cancelledWaiting' =
       [cancelledWaiting EXCEPT
          ![id] = @ \/ (job[id].state = "waiting" /\ job[id].attemptsMade = 0)]
  /\ UNCHANGED <<fileTree, parsedFiles, pc, localPath, thrown, parsed, disk,
                 httpVars, everProcessing, termDir, lastThrown, seenCompleted,
                 treeAfter, fetchThrows, fetchError, treeFromFailed,
                 deletedWaiting, completedSeen>>
  /\ UNCHANGED <<walkerVars, frontVars, laterVars>>

\* cancelJob: job.remove() of a job that is not locked by a worker.  On a job
\* that is active, or that is not in the queue, it changes nothing.
CancelJob(id) ==
  /\ job[id].state \in {"waiting", "completed", "failed"}
  /\ job' = [job EXCEPT ![id] = NoJob]
  /\ cancelled' = [cancelled EXCEPT ![id] = TRUE]
  /\ cancelledWaiting' =
       [cancelledWaiting EXCEPT
          ![id] = @ \/ (job[id].state = "waiting" /\ job[id].attemptsMade = 0)]
  /\ UNCHANGED <<storeVars, pc, localPath, thrown, parsed, disk, httpVars,
                 everProcessing, termDir, lastThrown, seenCompleted, treeAfter,
                 fetchThrows, fetchError, treeFromFailed, deletedWaiting,
                 completedSeen>>
  /\ UNCHANGED <<walkerVars, frontVars, laterVars>>

\* removeOnComplete / removeOnFail: a finished job leaves the queue when its
\* retention ends.
RemoveFinished(id) ==
  /\ job[id].state \in {"completed", "failed"}
  /\ job' = [job EXCEPT ![id] = NoJob]
  /\ UNCHANGED <<storeVars, pc, localPath, thrown, parsed, disk, httpVars,
                 histVars>>
  /\ UNCHANGED <<walkerVars, frontVars, laterVars>>

----------------------------------------------------------------------------
\* HTTP reads and delete

\* The dependent rows of a deleted Analysis row are deleted with it
\* (delete(id) cascades to dependent rows).
Cascade(table, id) == [table EXCEPT ![id] = FALSE]

\* DELETE /analysis/:id: AnalysisRepository.delete
DeleteAnalysis(id) ==
  /\ Exists(id)
  /\ rec' = [rec EXCEPT ![id] = NoRec]
  /\ fileTree' = Cascade(fileTree, id)
  /\ parsedFiles' = Cascade(parsedFiles, id)
  /\ treeFromFailed' = [treeFromFailed EXCEPT ![id] = FALSE]
  /\ deletedWaiting' =
       [deletedWaiting EXCEPT
          ![id] = job[id].state = "waiting" /\ job[id].attemptsMade = 0]
  /\ UNCHANGED <<job, pc, localPath, thrown, parsed, disk, httpVars,
                 everProcessing, termDir, lastThrown, seenCompleted, treeAfter,
                 cancelled, fetchThrows, fetchError, cancelledWaiting,
                 completedSeen>>
  /\ UNCHANGED <<walkerVars, frontVars, laterVars>>

\* GET /analysis/:id/status, first await: analysisRepository.findById
StatusRead(id) ==
  /\ statusReq[id] = NoRec
  /\ Exists(id)
  /\ statusReq' = [statusReq EXCEPT ![id] = rec[id]]
  /\ UNCHANGED <<storeVars, job, pc, localPath, thrown, parsed, disk, post,
                 postAnswer, upstream, histVars>>
  /\ UNCHANGED <<walkerVars, frontVars, laterVars>>

\* The body GET /analysis/:id/status answers with: j is what getJobStatus
\* returned, NoJob standing for null (jobStatus?.progress || { percentage: 0 }).
StatusResponse(row, j) ==
  [status |-> row.status,
   percentage |-> IF j.state = "absent" THEN 0 ELSE j.progress,
   error |-> row.error]

\* GET /analysis/:id/status, second await: getJobStatus, then res.json.
\* getJobStatus returns the job, or null when the job is not in the queue or
\* when reading it throws.
StatusRespond(id) ==
  /\ statusReq[id] # NoRec
  /\ \E readThrows \in BOOLEAN :
       LET body == StatusResponse(statusReq[id],
                                  IF readThrows THEN NoJob ELSE job[id])
       IN  /\ seenCompleted' =
                [seenCompleted EXCEPT ![id] = @ \/ body.status = "completed"]
           /\ completedSeen' =
                [completedSeen EXCEPT
                   ![id] = IF body.status = "completed"
                              /\ job[id].state # "absent"
                             THEN @ \cup {<<body.percentage, ~readThrows>>}
                             ELSE @]
  /\ statusReq' = [statusReq EXCEPT ![id] = NoRec]
  /\ UNCHANGED <<storeVars, job, pc, localPath, thrown, parsed, disk, post,
                 postAnswer, upstream, everProcessing, termDir, lastThrown,
                 treeAfter, cancelled, fetchThrows, fetchError, treeFromFailed,
                 deletedWaiting, cancelledWaiting>>
  /\ UNCHANGED <<walkerVars, frontVars, laterVars>>

\* The status GET /analysis/:id/tree answers with.
TreeResponse(id) ==
  IF ~Exists(id) THEN "404 analysis"
  ELSE IF ~fileTree[id] THEN "404 tree"
  ELSE "200"

\* GET /analysis/:id/tree: one findById with the file tree joined
GetTree(id) ==
  /\ seenCompleted[id]
  /\ treeAfter' = [treeAfter EXCEPT ![id] = TreeResponse(id)]
  /\ UNCHANGED <<storeVars, job, pc, localPath, thrown, parsed, disk, httpVars,
                 everProcessing, termDir, lastThrown, seenCompleted, cancelled,
                 fetchThrows, fetchError, lateHist>>
  /\ UNCHANGED <<walkerVars, frontVars, laterVars>>

----------------------------------------------------------------------------
\* Tree walker (tree-builder.service.ts) and metrics (MetricsService)

\* The entries a working copy may hold, by relative path.  The root
\* .gitignore, when present, holds the one rule b.py.
Entries ==
  {<<"a.ts">>, <<"b.py">>, <<".gitignore">>, <<"yarn.lock">>,
   <<"node_modules">>, <<"node_modules", "ignored.js">>,
   <<"src">>, <<"src", "c.test.ts">>, <<"src", "dist">>,
   <<"src", "dist", "out.js">>}

\* The entries for which stats.isDirectory() holds; the others are files.
Directories == {<<"node_modules">>, <<"src">>, <<"src", "dist">>}

\* The symbolic link a working copy may hold at its root.
LinkEntry == <<"link">>

\* The directory above the root, and what it holds besides the root.
Outside == <<"..">>
OutsideEntries == {<<"..", "passwd">>}

\* No symbolic link in the working copy.
NoLink == <<"none">>

\* What the link may point to: a file, a directory of the working copy, the
\* root itself (a cycle), the directory above the root.
LinkTargets == {<<"a.ts">>, <<"src">>, <<>>, Outside}

\* The symbolic links the kernel follows in one path before fs.stat fails
\* with ELOOP.
SymlinkLimit == 3

RECURSIVE Real(_)
\* The entry fs.stat and fs.readdir reach through a path: they follow links.
Real(p) ==
  IF p # <<>> /\ p[1] = LinkEntry[1] /\ linkTarget # NoLink
    THEN Real(linkTarget \o Tail(p))
    ELSE p

RECURSIVE Hops(_)
\* The symbolic links followed on the way.
Hops(p) ==
  IF p # <<>> /\ p[1] = LinkEntry[1] /\ linkTarget # NoLink
    THEN 1 + Hops(linkTarget \o Tail(p))
    ELSE 0

\* path.basename(rootPath): the name cloneRepository generated
RootName == "clone"

\* A working copy holds the directories its entries are in.
ParentClosed(wc) ==
  \A p \in wc : Len(p) > 1 => SubSeq(p, 1, Len(p) - 1) \in wc

\* stats.size of a file, in bytes
Size(p) ==
  CASE p = <<"a.ts">> -> 2048
    [] p = <<"b.py">> -> 100
    [] p = <<".gitignore">> -> 5
    [] p = <<"yarn.lock">> -> 3000
    [] p = <<"node_modules", "ignored.js">> -> 700
    [] p = <<"src", "c.test.ts">> -> 1025
    [] OTHER -> 40

\* countLines: content.split('\n').length
Lines(p) ==
  CASE p = <<"a.ts">> -> 3
    [] p = <<"b.py">> -> 2
    [] p = <<"yarn.lock">> -> 60
    [] p = <<"src", "c.test.ts">> -> 20
    [] OTHER -> 1

\* isTestFile: the path includes .test., .spec., __tests__, /test/ or /tests/
IsTestFile(p) == \E i \in 1..Len(p) : p[i] = "c.test.ts"

\* The options the worker passes on: includeTests and maxFileSizeKB as the
\* request gave them (a size from 1 to 10000, 1000 when absent), and
\* excludePatterns.
OptionValues ==
  [includeTests : BOOLEAN, maxFileSizeKB : {1, 1000},
   excludePatterns : {{}, {"src/**"}}]

path_basename(p) == IF p = <<>> THEN RootName ELSE p[Len(p)]

\* stats.isDirectory() of fs.stat(currentPath)
NodeType(p) ==
  IF Real(p) = <<>> \/ Real(p) \in Directories \cup {Outside}
    THEN "directory" ELSE "file"

\* fs.readdir(currentPath) joined to currentPath: the entries of the
\* directory the path leads to
Readdir(p) ==
  LET r == Real(p)
      held == workingCopy \cup OutsideEntries
  IN  {p \o <<q[Len(q)]>> :
         q \in {e \in held : Len(e) = Len(r) + 1 /\ SubSeq(e, 1, Len(r)) = r}}

\* fs.stat(currentPath) throws: EACCES, a link to nothing, ELOOP
StatThrows(p) ==
  \/ p \in unreadable
  \/ Real(p) \notin workingCopy \cup OutsideEntries \cup {<<>>, Outside}
  \/ Hops(p) > SymlinkLimit

\* TreeBuilderService.shouldSkipDirectory
shouldSkipDirectory(dirName) ==
  dirName \in {"node_modules", ".git", "dist", "build", "coverage", ".next",
               ".nuxt", "out", "vendor", "__pycache__", ".venv", "venv",
               "target", "bin", "obj", ".idea", ".vscode"}

\* The names of Entries in the order of localeCompare.
NameOrder ==
  <<".gitignore", "a.ts", "b.py", "c.test.ts", "dist", "ignored.js", "link",
    "node_modules", "out.js", "passwd", "src", "yarn.lock">>

\* children.sort: directories first, then files, each by name
SortChildren(nodes) ==
  LET IsDirName(n) == \E c \in nodes : c.name = n /\ c.type = "directory"
      IsFileName(n) == \E c \in nodes : c.name = n /\ c.type = "file"
      names == SelectSeq(NameOrder, IsDirName) \o SelectSeq(NameOrder, IsFileName)
  IN  [i \in 1..Len(names) |-> CHOOSE c \in nodes : c.name = names[i]]

\* The filter buildTreeRecursive applies to a child before it pushes it:
\* files over maxFileSizeKB, and test files unless includeTests.
FilteredOut(childNode, opts) ==
  /\ childNode.type = "file"
  /\ childNode.hasMetadata
  /\ \/ childNode.size > opts.maxFileSizeKB * 1024
     \/ ~opts.includeTests /\ childNode.isTest

RECURSIVE buildTreeRecursive(_, _)
\* TreeBuilderService.buildTreeRecursive.  hasChildren and hasMetadata say
\* whether node.children and node.metadata are set.  A child whose fs.stat
\* throws is logged and left out.
buildTreeRecursive(currentPath, opts) ==
  LET node == [name |-> path_basename(currentPath),
               type |-> NodeType(currentPath),
               relativePath |-> currentPath,
               hasChildren |-> FALSE, children |-> <<>>,
               hasMetadata |-> FALSE, size |-> 0, linesOfCode |-> 0,
               isTest |-> FALSE]
  IN  IF node.type = "file"
        THEN IF currentPath \in noMetadata
               THEN node
               ELSE [node EXCEPT !.hasMetadata = TRUE,
                                 !.size = Size(Real(currentPath)),
                                 !.linesOfCode = Lines(Real(currentPath)),
                                 !.isTest = IsTestFile(currentPath)]
        ELSE IF shouldSkipDirectory(node.name)
               THEN node
               ELSE LET built == {buildTreeRecursive(entry, opts) :
                                    entry \in {e \in Readdir(currentPath) :
                                                ~StatThrows(e)}}
                        children == {c \in built : ~FilteredOut(c, opts)}
                    IN  [node EXCEPT !.hasChildren = TRUE,
                                     !.children = SortChildren(children)]

\* TreeBuilderService.buildFileTree: the root node with the children found
buildFileTree(opts) ==
  LET built == buildTreeRecursive(<<>>, opts)
  IN  [name |-> RootName, type |-> "directory", relativePath |-> <<>>,
       hasChildren |-> built.hasChildren, children |-> built.children,
       hasMetadata |-> FALSE, size |-> 0, linesOfCode |-> 0, isTest |-> FALSE]

\* The statistics calculateMetrics starts from.
ZeroStatistics ==
  [totalFiles |-> 0, totalDirectories |-> 0, totalLines |-> 0,
   totalSize |-> 0, averageFileSize |-> 0]

RECURSIVE traverseAndCount(_, _)
RECURSIVE traverseChildren(_, _, _)
\* MetricsService.traverseAndCount: the statistics after the node is counted
traverseAndCount(node, stats) ==
  IF node.type = "directory"
    THEN LET counted == [stats EXCEPT !.totalDirectories = @ + 1]
         IN  IF node.hasChildren
               THEN traverseChildren(node.children, 1, counted)
               ELSE counted
    ELSE LET counted == [stats EXCEPT !.totalFiles = @ + 1]
         IN  IF node.hasMetadata
               THEN [counted EXCEPT !.totalLines = @ + node.linesOfCode,
                                    !.totalSize = @ + node.size]
               ELSE counted

\* for (const child of node.children) this.traverseAndCount(child, stats)
traverseChildren(children, i, stats) ==
  IF i > Len(children)
    THEN stats
    ELSE traverseChildren(children, i + 1, traverseAndCount(children[i], stats))

\* Math.round(n / d) for n >= 0 and d > 0
Round(n, d) == (2 * n + d) \div (2 * d)

\* calculateMetrics that counts the nodes below the root only.
calculateMetricsBelowRoot(root) ==
  LET stats == traverseChildren(root.children, 1, ZeroStatistics)
  IN  IF stats.totalFiles > 0
        THEN [stats EXCEPT !.averageFileSize = Round(stats.totalSize, stats.totalFiles)]
        ELSE stats

\* MetricsService.calculateMetrics
calculateMetrics(root) ==
  LET stats == traverseAndCount(root, ZeroStatistics)
  IN  IF stats.totalFiles > 0
        THEN [stats EXCEPT !.averageFileSize = Round(stats.totalSize, stats.totalFiles)]
        ELSE stats

\* A number of a JSON body is <<n>>; NaN, which Math.round(0 / 0) gives, is
\* <<>>.
NaN == <<>>

\* The statistics GET /analysis/:id/tree answers with for a FileTree row.
TreeStatistics(row) ==
  [totalFiles |-> row.totalFiles,
   totalDirectories |-> row.totalDirectories,
   totalLines |-> row.totalLines,
   totalSize |-> row.totalSize,
   averageFileSize |-> IF row.totalFiles = 0
                         THEN NaN
                         ELSE <<Round(row.totalSize, row.totalFiles)>>]

NoNode == [type |-> "none"]
NoStatistics == [computed |-> FALSE]

\* The walker is not followed: no working copy, nothing built.
WalkerOff ==
  /\ workingCopy = {}
  /\ options = [includeTests |-> TRUE, maxFileSizeKB |-> 1000,
                excludePatterns |-> {}]
  /\ noMetadata = {}
  /\ unreadable = {}
  /\ linkTarget = NoLink
  /\ walk = "off"
  /\ tree = NoNode
  /\ statistics = NoStatistics
  /\ artifact = NoStatistics
  /\ treeBody = NoStatistics

\* Any working copy of Entries, any options; one file may have no metadata
\* and one entry may be unreadable.
WalkerInit ==
  /\ workingCopy \in {wc \in SUBSET Entries : ParentClosed(wc)}
  /\ options \in OptionValues
  /\ noMetadata \in {{}, {<<"a.ts">>}}
  /\ unreadable \in {{}, {<<"b.py">>}}
  /\ linkTarget = NoLink
  /\ walk = "start"
  /\ tree = NoNode
  /\ statistics = NoStatistics
  /\ artifact = NoStatistics
  /\ treeBody = NoStatistics

\* const fileTree = await treeBuilderService.buildFileTree(localPath, options)
BuildTree ==
  /\ walk = "start"
  /\ tree' = buildFileTree(options)
  /\ walk' = "built"
  /\ UNCHANGED <<workingCopy, options, noMetadata, unreadable, linkTarget,
                 statistics,
                 artifact, treeBody>>
  /\ UNCHANGED <<workerVars, frontVars, laterVars>>

\* const statistics = metricsService.calculateMetrics(fileTree)
CalculateTreeMetrics ==
  /\ walk = "built"
  /\ statistics' = calculateMetrics(tree)
  /\ walk' = "measured"
  /\ UNCHANGED <<workingCopy, options, noMetadata, unreadable, linkTarget,
                 tree, artifact,
                 treeBody>>
  /\ UNCHANGED <<workerVars, frontVars, laterVars>>

\* FileTreeRepository.save: the row holds the tree and the four totals
PersistTree ==
  /\ walk = "measured"
  /\ artifact' = [totalFiles |-> statistics.totalFiles,
                  totalDirectories |-> statistics.totalDirectories,
                  totalLines |-> statistics.totalLines,
                  totalSize |-> statistics.totalSize]
  /\ walk' = "saved"
  /\ UNCHANGED <<workingCopy, options, noMetadata, unreadable, linkTarget,
                 tree,
                 statistics, treeBody>>
  /\ UNCHANGED <<workerVars, frontVars, laterVars>>

\* GET /analysis/:id/tree of an analysis whose FileTree row exists
ServeTree ==
  /\ walk = "saved"
  /\ treeBody' = TreeStatistics(artifact)
  /\ walk' = "served"
  /\ UNCHANGED <<workingCopy, options, noMetadata, unreadable, linkTarget,
                 tree,
                 statistics, artifact>>
  /\ UNCHANGED <<workerVars, frontVars, laterVars>>

----------------------------------------------------------------------------
\* The middleware a request passes (app.ts): optionalAuth, apiRateLimiter,
\* then the route; POST /analyze is strictRateLimiter, validateBody, handler.

\* env.API_KEY is not set; a request carries no x-api-key header
NoKey == "unset"

ApiKeys == {NoKey, "k1"}
Headers == {NoKey, "k1", "k2"}
NodeEnvs == {"development", "production", "test"}
Routes == {"POST /analyze", "GET /analysis/:id"}

\* strictRateLimiter: max
StrictMax == 10

\* The POST /analyze requests followed in one window of strictRateLimiter.
MaxRequests == 12

NoRequest == [header |-> NoKey, sent |-> FALSE]
NoResponse == [status |-> 0, handlerRan |-> FALSE, authenticated |-> FALSE]

\* skip of apiRateLimiter and of strictRateLimiter
SkipRateLimit == nodeEnv = "development" /\ apiKey = NoKey

\* optionalAuth: whether it sets req.authenticated; it always calls next()
optionalAuth(header) == header # NoKey /\ apiKey # NoKey /\ header = apiKey

\* A limiter that lets one more request through than max.
StrictLimitedAboveNext(totalHits) == totalHits > StrictMax + 1

\* express-rate-limit with max: a request is refused when the hits counted
\* for its key in the window, itself included, exceed max.
StrictLimited(totalHits) == totalHits > StrictMax

FrontOff ==
  /\ nodeEnv = "development"
  /\ apiKey = NoKey
  /\ strictHits = 0
  /\ sent = 0
  /\ passed = 0
  /\ request = [r \in Routes |-> NoRequest]
  /\ response = [r \in Routes |-> NoResponse]

FrontInit ==
  /\ nodeEnv \in NodeEnvs
  /\ apiKey \in ApiKeys
  /\ strictHits = 0
  /\ sent = 0
  /\ passed = 0
  /\ request = [r \in Routes |-> NoRequest]
  /\ response = [r \in Routes |-> NoResponse]

Answer(route, status, ran, header) ==
  response' = [response EXCEPT
                 ![route] = [status |-> status, handlerRan |-> ran,
                             authenticated |-> optionalAuth(header)]]

\* One POST /analyze from the client.  apiRateLimiter counts all requests of
\* the IP in its own window (RATE_LIMIT_MAX_REQUESTS per RATE_LIMIT_WINDOW_MS);
\* its count is not followed: unless skipped, it may refuse the request.
PostAnalyze ==
  /\ sent < MaxRequests
  /\ \E header \in Headers, invalidBody \in BOOLEAN :
       /\ request' = [request EXCEPT
                        !["POST /analyze"] = [header |-> header, sent |-> TRUE]]
       /\ sent' = sent + 1
       /\ \/ /\ SkipRateLimit
             /\ passed' = passed + 1
             /\ Answer("POST /analyze", IF invalidBody THEN 400 ELSE 201,
                       ~invalidBody, header)
             /\ UNCHANGED strictHits
          \/ /\ ~SkipRateLimit
             /\ strictHits' = strictHits + 1
             /\ IF StrictLimited(strictHits + 1)
                  THEN /\ Answer("POST /analyze", 429, FALSE, header)
                       /\ UNCHANGED passed
                  ELSE /\ passed' = passed + 1
                       /\ Answer("POST /analyze",
                                 IF invalidBody THEN 400 ELSE 201,
                                 ~invalidBody, header)
          \/ /\ ~SkipRateLimit
             /\ Answer("POST /analyze", 429, FALSE, header)
             /\ UNCHANGED <<strictHits, passed>>
  /\ UNCHANGED <<nodeEnv, apiKey>>
  /\ UNCHANGED <<workerVars, walkerVars, laterVars>>

\* One GET /analysis/:id from the client: no limiter of its own.
GetAnalysis ==
  /\ \E header \in Headers :
       /\ request' = [request EXCEPT
                        !["GET /analysis/:id"] = [header |-> header, sent |-> TRUE]]
       /\ \/ Answer("GET /analysis/:id", 200, TRUE, header)
          \/ /\ ~SkipRateLimit
             /\ Answer("GET /analysis/:id", 429, FALSE, header)
  /\ UNCHANGED <<nodeEnv, apiKey, strictHits, sent, passed>>
  /\ UNCHANGED <<workerVars, walkerVars, laterVars>>

\* windowMs of strictRateLimiter has passed: the hits of the key are reset.
WindowExpires ==
  /\ strictHits > 0
  /\ strictHits' = 0
  /\ sent' = 0
  /\ passed' = 0
  /\ UNCHANGED <<nodeEnv, apiKey, request, response>>
  /\ UNCHANGED <<workerVars, walkerVars, laterVars>>

----------------------------------------------------------------------------
\* The worker pipeline, with the walker and the middleware chain not followed.
----------------------------------------------------------------------------
\* Commit identifiers (processAnalysisJob, GitHubService.getCommitSha,
\* AnalysisRepository.updateCommitSha, CloneService.cloneRepository)

\* The commits pushed to the analysed branch, oldest first.
Commits == <<"c1", "c2", "c3">>

\* Analysis.commitSha before the worker has stored one.
NoSha == "none"

\* The commit pushed after c.
Successor(c) == IF c = Commits[1] THEN Commits[2] ELSE Commits[3]

\* Not followed: the record is queued and no attempt has started.
CommitOff ==
  /\ head = Commits[1]
  /\ step = "off"
  /\ attempts = 0
  /\ commitSha = NoSha
  /\ storedSha = NoSha
  /\ cloneSha = NoSha
  /\ recordStatus = "queued"

CommitInit ==
  /\ head = Commits[1]
  /\ step = "waiting"
  /\ attempts = 0
  /\ commitSha = NoSha
  /\ storedSha = NoSha
  /\ cloneSha = NoSha
  /\ recordStatus = "queued"

\* A push to the analysed branch moves its head to the next commit.
Push ==
  /\ head # Commits[Len(Commits)]
  /\ head' = Successor(head)
  /\ UNCHANGED <<step, attempts, commitSha, storedSha, cloneSha, recordStatus>>
  /\ UNCHANGED <<workerVars, walkerVars, frontVars, parserVars, shutdownVars>>

\* The worker takes the job: updateStatus(analysisId, 'processing'), progress
\* 0 and 10, fetchRepoMetadata.  The attempt's constants are not yet bound.
Begin ==
  /\ step = "waiting"
  /\ commitSha' = NoSha
  /\ cloneSha' = NoSha
  /\ \/ recordStatus' = "processing" /\ step' = "sha"
     \/ UNCHANGED recordStatus /\ step' = "catch"
  /\ UNCHANGED <<head, attempts, storedSha>>
  /\ UNCHANGED <<workerVars, walkerVars, frontVars, parserVars, shutdownVars>>

\* const commitSha = await githubService.getCommitSha(owner, name, branch):
\* the sha of the branch's head when the API answers
getCommitSha ==
  /\ step = "sha"
  /\ \/ commitSha' = head /\ step' = "saveSha"
     \/ UNCHANGED commitSha /\ step' = "catch"
  /\ UNCHANGED <<head, attempts, storedSha, cloneSha, recordStatus>>
  /\ UNCHANGED <<workerVars, walkerVars, frontVars, parserVars, shutdownVars>>

\* await analysisRepository.updateCommitSha(analysisId, commitSha)
updateCommitSha ==
  /\ step = "saveSha"
  /\ \/ storedSha' = commitSha /\ step' = "clone"
     \/ UNCHANGED storedSha /\ step' = "catch"
  /\ UNCHANGED <<head, attempts, commitSha, cloneSha, recordStatus>>
  /\ UNCHANGED <<workerVars, walkerVars, frontVars, parserVars, shutdownVars>>

\* const cloneResult = await cloneService.cloneRepository(url, { branch,
\* depth: 1 }): git clone of the branch, then git log -1 in the working copy
cloneRepository ==
  /\ step = "clone"
  /\ \/ cloneSha' = head /\ step' = "walk"
     \/ UNCHANGED cloneSha /\ step' = "catch"
  /\ UNCHANGED <<head, attempts, commitSha, storedSha, recordStatus>>
  /\ UNCHANGED <<workerVars, walkerVars, frontVars, parserVars, shutdownVars>>

\* Steps 4 to 6 on cloneResult.localPath: tree, scan, parse, save, delete the
\* working copy, progress 100.  None of them writes commitSha.
WalkAndParse ==
  /\ step = "walk"
  /\ step' \in {"complete", "catch"}
  /\ UNCHANGED <<head, attempts, commitSha, storedSha, cloneSha, recordStatus>>
  /\ UNCHANGED <<workerVars, walkerVars, frontVars, parserVars, shutdownVars>>

\* await analysisRepository.updateStatus(analysisId, 'completed'); return
Complete ==
  /\ step = "complete"
  /\ \/ recordStatus' = "completed" /\ step' = "done"
     \/ UNCHANGED recordStatus /\ step' = "catch"
  /\ UNCHANGED <<head, attempts, commitSha, storedSha, cloneSha>>
  /\ UNCHANGED <<workerVars, walkerVars, frontVars, parserVars, shutdownVars>>

\* catch: updateStatus(analysisId, 'failed', message), which may reject; throw.
\* The queue retries the job while attempts remain.
Fail ==
  /\ step = "catch"
  /\ recordStatus' \in {"failed", recordStatus}
  /\ attempts' = attempts + 1
  /\ step' = IF StateAfterFailure(attempts + 1) = "waiting"
               THEN "waiting" ELSE "exhausted"
  /\ UNCHANGED <<head, commitSha, storedSha, cloneSha>>
  /\ UNCHANGED <<workerVars, walkerVars, frontVars, parserVars, shutdownVars>>

----------------------------------------------------------------------------
\* Parse step (ParserService, TypeScriptParser, PythonParser, steps 7 and 8 of
\* processAnalysisJob)

\* The files handed to parseFilesParallel: shouldParse let them through.
ParseableFiles == {"a.ts", "b.py", "c.ts"}

\* What reading and parsing one file runs into.
Conditions == {"ok", "statFails", "tooLarge", "readFails", "syntaxError"}

\* LanguageDetector.detectFromExtension
detectFromExtension(f) == IF f = "b.py" THEN "python" ELSE "typescript"

\* ParserService.getSupportedLanguages / isSupportedForParsing
isSupportedForParsing(language) ==
  language \in {"typescript", "javascript", "python"}

\* parseFile resolved to null.
Null == [kind |-> "null"]

\* The parser's promise rejected.
Rejected == [kind |-> "rejected"]

\* TypeScriptParser.parseFile / PythonParser.parseFile: fs.readFile is
\* outside the try block, so a read error rejects the call (Rejected);
\* an error of parse() or of the traversal is caught inside and a ParsedFile
\* with empty lists is returned.
parserParseFile(f, c) ==
  IF c = "readFails" THEN Rejected
  ELSE [kind |-> "parsed", path |-> f, language |-> detectFromExtension(f),
        extracted |-> c # "syntaxError"]

\* ParserService.parseFile with skipLargeFiles: null for a file whose stat
\* fails, that is larger than maxFileSize, whose language has no parser, or
\* whose parser throws
parseFile(f, c) ==
  IF c \in {"statFails", "tooLarge"} THEN Null
  ELSE IF ~isSupportedForParsing(detectFromExtension(f)) THEN Null
  ELSE IF parserParseFile(f, c) = Rejected THEN Null
  ELSE parserParseFile(f, c)

\* A promise of parseFilesParallel that has not settled.
Pending == [kind |-> "pending"]

ParserOff ==
  /\ condition = [f \in ParseableFiles |-> "ok"]
  /\ parseResult = [f \in ParseableFiles |-> Pending]
  /\ parsedRows = {}
  /\ parseStep = "off"

ParserInit ==
  /\ condition \in [ParseableFiles -> Conditions]
  /\ parseResult = [f \in ParseableFiles |-> Pending]
  /\ parsedRows = {}
  /\ parseStep = "parse"

\* One promise of parseFilesParallel settles: parseFile never rejects.
ParseFile ==
  /\ parseStep = "parse"
  /\ \E f \in ParseableFiles :
       /\ parseResult[f] = Pending
       /\ parseResult' = [parseResult EXCEPT ![f] = parseFile(f, condition[f])]
  /\ UNCHANGED <<condition, parsedRows, parseStep>>
  /\ UNCHANGED <<workerVars, walkerVars, frontVars, commitVars, shutdownVars>>

\* The list parseFilesParallel returns: the results that are not null.
parseFilesParallel == {parseResult[f] : f \in ParseableFiles} \ {Null}

\* Promise.all resolves; if (parsedFiles.length > 0) saveParsedFiles, which
\* rethrows a store error into the worker's catch block.
SaveParsed ==
  /\ parseStep = "parse"
  /\ \A f \in ParseableFiles : parseResult[f] # Pending
  /\ \/ /\ parsedRows' = parseFilesParallel
        /\ parseStep' = "saved"
     \/ /\ parseFilesParallel # {}
        /\ parseStep' = "catch"
        /\ UNCHANGED parsedRows
  /\ UNCHANGED <<condition, parseResult>>
  /\ UNCHANGED <<workerVars, walkerVars, frontVars, commitVars, shutdownVars>>

----------------------------------------------------------------------------
\* Server process (startServer, gracefulShutdown, closeQueues, disconnectRedis)

\* Handlers followed at once.
MaxInflight == 3

\* setTimeout(..., 30000): seconds from the signal to the forced exit
ForceExitAfter == 30

\* The process is running.
NoExit == "running"

ShutdownOff ==
  /\ listening = FALSE
  /\ inflight = 0
  /\ signalled = FALSE
  /\ database = "open"
  /\ redis = "open"
  /\ queue = "open"
  /\ exited = NoExit
  /\ elapsed = 0

\* app.listen after connectDatabase
ShutdownInit ==
  /\ listening = TRUE
  /\ inflight = 0
  /\ signalled = FALSE
  /\ database = "open"
  /\ redis = "open"
  /\ queue = "open"
  /\ exited = NoExit
  /\ elapsed = 0

\* A connection is accepted and its handler starts.
Accept ==
  /\ exited = NoExit
  /\ listening
  /\ inflight < MaxInflight
  /\ inflight' = inflight + 1
  /\ UNCHANGED <<listening, signalled, database, redis, queue, exited, elapsed>>
  /\ UNCHANGED <<workerVars, walkerVars, frontVars, commitVars, parserVars>>

\* A handler finishes and its connection ends.
Finish ==
  /\ exited = NoExit
  /\ inflight > 0
  /\ inflight' = inflight - 1
  /\ UNCHANGED <<listening, signalled, database, redis, queue, exited, elapsed>>
  /\ UNCHANGED <<workerVars, walkerVars, frontVars, commitVars, parserVars>>

\* SIGTERM or SIGINT: gracefulShutdown calls server.close(callback), which
\* stops the listener, and arms the 30 s timer.
Signal ==
  /\ exited = NoExit
  /\ ~signalled
  /\ signalled' = TRUE
  /\ listening' = FALSE
  /\ UNCHANGED <<inflight, database, redis, queue, exited, elapsed>>
  /\ UNCHANGED <<workerVars, walkerVars, frontVars, commitVars, parserVars>>

\* The callback of server.close runs once every connection has ended:
\* Promise.all([disconnectDatabase(), disconnectRedis(), closeQueues()])
\* calls the three functions one after the other, each up to its first await.
ServerClosed ==
  /\ exited = NoExit
  /\ signalled
  /\ inflight = 0
  /\ database = "open" /\ redis = "open" /\ queue = "open"
  /\ database' = "closing"
  /\ redis' = "closing"
  /\ queue' = "closing"
  /\ UNCHANGED <<listening, inflight, signalled, exited, elapsed>>
  /\ UNCHANGED <<workerVars, walkerVars, frontVars, commitVars, parserVars>>

\* disconnectDatabase settles.
DisconnectDatabase ==
  /\ exited = NoExit
  /\ database = "closing"
  /\ database' = "closed"
  /\ UNCHANGED <<listening, inflight, signalled, redis, queue, exited, elapsed>>
  /\ UNCHANGED <<workerVars, walkerVars, frontVars, commitVars, parserVars>>

\* disconnectRedis settles: both quit() calls are done, an error is logged.
DisconnectRedis ==
  /\ exited = NoExit
  /\ redis = "closing"
  /\ redis' = "closed"
  /\ UNCHANGED <<listening, inflight, signalled, database, queue, exited, elapsed>>
  /\ UNCHANGED <<workerVars, walkerVars, frontVars, commitVars, parserVars>>

\* closeQueues settles: analysisQueue.close() is done, an error is logged.
CloseQueues ==
  /\ exited = NoExit
  /\ queue = "closing"
  /\ queue' = "closed"
  /\ UNCHANGED <<listening, inflight, signalled, database, redis, exited, elapsed>>
  /\ UNCHANGED <<workerVars, walkerVars, frontVars, commitVars, parserVars>>

\* Promise.all has settled: process.exit(0), or process.exit(1) when
\* disconnectDatabase rejected.
Exit ==
  /\ exited = NoExit
  /\ database = "closed" /\ redis = "closed" /\ queue = "closed"
  /\ exited' \in {"0", "1"}
  /\ UNCHANGED <<listening, inflight, signalled, database, redis, queue, elapsed>>
  /\ UNCHANGED <<workerVars, walkerVars, frontVars, commitVars, parserVars>>

\* A second passes after the signal.
Tick ==
  /\ exited = NoExit
  /\ signalled
  /\ elapsed < ForceExitAfter
  /\ elapsed' = elapsed + 1
  /\ UNCHANGED <<listening, inflight, signalled, database, redis, queue,
                 exited>>
  /\ UNCHANGED <<workerVars, walkerVars, frontVars, commitVars, parserVars>>

\* The timer armed by gracefulShutdown fires: process.exit(1).
ForceExit ==
  /\ exited = NoExit
  /\ signalled
  /\ elapsed = ForceExitAfter
  /\ exited' = "forced"
  /\ UNCHANGED <<listening, inflight, signalled, database, redis, queue,
                 elapsed>>
  /\ UNCHANGED <<workerVars, walkerVars, frontVars, commitVars, parserVars>>

----------------------------------------------------------------------------
\* Specifications

LaterOff == CommitOff /\ ParserOff /\ ShutdownOff

\* The worker, the queue and the HTTP handlers of one analysis.
Init == WorkerInit /\ WalkerOff /\ FrontOff /\ LaterOff

Next ==
  \E id \in AnalysisIds :
    \/ PostVerify(id)
    \/ PostDetectBranch(id)
    \/ PostCreate(id)
    \/ PostEnqueue(id)
    \/ Pick(id)
    \/ StartProcessing(id)
    \/ PublishProgress(id)
    \/ FetchRepoMetadata(id)
    \/ GetCommitSha(id)
    \/ UpdateCommitSha(id)
    \/ CloneRepository(id)
    \/ BuildFileTree(id)
    \/ SaveFileTree(id)
    \/ ScanDirectory(id)
    \/ ParseFiles(id)
    \/ SaveParsedFiles(id)
    \/ DeleteRepository(id)
    \/ MarkCompleted(id)
    \/ Return(id)
    \/ Catch(id)
    \/ Rethrow(id)
    \/ CancelJob(id)
    \/ RemoveFinished(id)
    \/ DeleteAnalysis(id)
    \/ StatusRead(id)
    \/ StatusRespond(id)
    \/ GetTree(id)

Spec == Init /\ [][Next]_vars

\* The tree walker and the metrics, over every working copy and option.
InitWalker == WorkerInit /\ WalkerInit /\ FrontOff /\ LaterOff

NextWalker ==
  \/ BuildTree
  \/ CalculateTreeMetrics
  \/ PersistTree
  \/ ServeTree

SpecWalker == InitWalker /\ [][NextWalker]_vars

\* The tree walker and the metrics on working copies that hold a symbolic
\* link at the root, with the worker's default options.
InitSymlink ==
  /\ WorkerInit /\ FrontOff /\ LaterOff
  /\ workingCopy \in {wc \cup {LinkEntry} : wc \in {w \in SUBSET Entries :
                                                     ParentClosed(w)}}
  /\ options = [includeTests |-> TRUE, maxFileSizeKB |-> 1000,
                excludePatterns |-> {}]
  /\ noMetadata = {}
  /\ unreadable = {}
  /\ linkTarget \in LinkTargets
  /\ walk = "start"
  /\ tree = NoNode
  /\ statistics = NoStatistics
  /\ artifact = NoStatistics
  /\ treeBody = NoStatistics

SpecSymlink == InitSymlink /\ [][NextWalker]_vars

\* The middleware chain, under every configuration of NODE_ENV and API_KEY.
InitFront == WorkerInit /\ WalkerOff /\ FrontInit /\ LaterOff

NextFront ==
  \/ PostAnalyze
  \/ GetAnalysis
  \/ WindowExpires

SpecFront == InitFront /\ [][NextFront]_vars

\* The commit identifiers of one analysis, under pushes to its branch.
InitCommit ==
  WorkerInit /\ WalkerOff /\ FrontOff /\ CommitInit /\ ParserOff /\ ShutdownOff

NextCommit ==
  \/ Push
  \/ Begin
  \/ getCommitSha
  \/ updateCommitSha
  \/ cloneRepository
  \/ WalkAndParse
  \/ Complete
  \/ Fail

SpecCommit == InitCommit /\ [][NextCommit]_vars

\* The parse step, under every combination of per-file failures.
InitParser ==
  WorkerInit /\ WalkerOff /\ FrontOff /\ CommitOff /\ ParserInit /\ ShutdownOff

NextParser ==
  \/ ParseFile
  \/ SaveParsed

SpecParser == InitParser /\ [][NextParser]_vars

\* The server process from listening to exit.
InitShutdown ==
  WorkerInit /\ WalkerOff /\ FrontOff /\ CommitOff /\ ParserOff /\ ShutdownInit

NextShutdown ==
  \/ Accept
  \/ Finish
  \/ Signal
  \/ ServerClosed
  \/ DisconnectDatabase
  \/ DisconnectRedis
  \/ CloseQueues
  \/ Exit
  \/ Tick
  \/ ForceExit

SpecShutdown == InitShutdown /\ [][NextShutdown]_vars


----------------------------------------------------------------------------
\* Claims

Status(id) == rec[id].status

\* Position of a status in the order queued -> processing -> terminal.
Rank(st) ==
  CASE st = "queued" -> 0
    [] st = "processing" -> 1
    [] OTHER -> 2

\* C1: the stored status of a record changes only along queued ->
\* processing -> (completed | failed | cancelled); a failed or completed
\* record never becomes processing or queued again.
C1_StatusForwardOnly ==
  [][\A id \in AnalysisIds :
       (Exists(id) /\ Exists(id)') =>
          /\ Rank(Status(id)') >= Rank(Status(id))
          /\ Status(id) \in {"completed", "failed"} =>
               Status(id)' \notin {"processing", "queued"}]_vars

\* C2: whenever a record is completed or failed, the working copy cloned by
\* the attempt that wrote that status has been deleted.
C2_WorkingCopyDeletedAtTerminal ==
  \A id \in AnalysisIds :
    (Exists(id) /\ Status(id) \in {"completed", "failed"}) =>
       termDir[id] \notin disk

\* C3: a FileTree row exists for an id only if the record's status has
\* reached completed.
C3_FileTreeOnlyIfCompleted ==
  \A id \in AnalysisIds :
    fileTree[id] => (Exists(id) /\ Status(id) = "completed")

C5_TimestampsIffStatus ==
  \A id \in AnalysisIds :
    Exists(id) =>
       /\ rec[id].completedAt <=> Status(id) \in {"completed", "failed"}
       /\ rec[id].startedAt <=> everProcessing[id]

\* C6: a completed or failed record has completedAt and startedAt set, also
\* when store and external calls fail.
C6_TerminalHasTimestamps ==
  \A id \in AnalysisIds :
    (Exists(id) /\ Status(id) \in {"completed", "failed"}) =>
       (rec[id].completedAt /\ rec[id].startedAt)

\* C7: a record's error is set iff its status is failed.
C7_ErrorIffFailed ==
  \A id \in AnalysisIds :
    Exists(id) => (rec[id].error # NoErr <=> Status(id) = "failed")

\* C8: a job is attempted at most 3 times; when every attempt threw, the
\* record is failed after the last attempt, its error is the message the
\* last attempt threw, and the status endpoint answers with that error.
C8_ExhaustedIsFailedWithLastError ==
  \A id \in AnalysisIds :
    /\ job[id].attemptsMade <= MaxAttempts
    /\ (job[id].state = "failed" /\ Exists(id)) =>
          /\ Status(id) = "failed"
          /\ rec[id].error = lastThrown[id]
          /\ StatusResponse(rec[id], job[id]).error = lastThrown[id]

\* C9: for a completed record no working copy cloned for its job exists on
\* disk, whichever attempt cloned it.
C9_NoWorkingCopyWhenCompleted ==
  \A id \in AnalysisIds :
    (Exists(id) /\ Status(id) = "completed") =>
       \A d \in disk : ~(d[1] = id /\ d[3] = "clone")

\* The percentage the spec gives the step an attempt is in.
StepPercentage ==
  [fetch |-> 10, sha |-> 10, saveSha |-> 10, clone |-> 20, tree |-> 40,
   saveTree |-> 50, scan |-> 65, parse |-> 65, saveParsed |-> 85, rm |-> 85,
   complete |-> 100, return |-> 100]

\* C10: within one attempt the published percentage never decreases and each
\* named step runs at its fixed percentage (10, 20, 40, 50, 65, 85, 100 at
\* completion); the percentage decreases only when a retry starts an attempt.
C10_ProgressMonotonicWithinAttempt ==
  /\ [](\A id \in AnalysisIds :
          pc[id] \in DOMAIN StepPercentage =>
             job[id].progress = StepPercentage[pc[id]])
  /\ [][\A id \in AnalysisIds :
          (job[id].state = "active" /\ job'[id].state = "active"
             /\ job'[id].progress < job[id].progress) =>
               (pc[id] = "p0" /\ job[id].attemptsMade > 0)]_vars

\* C10 witness: a retry has reset the percentage and the new attempt has
\* published every step up to 100.
C10_Witness ==
  \E id \in AnalysisIds :
    job[id].attemptsMade > 0 /\ pc[id] = "complete" /\ job[id].progress = 100

\* C11: when job.updateProgress throws, the worker goes on with the step
\* that follows the update, the published progress stays what it was, and
\* the record is never marked failed with the transport error.
C11_ProgressFailureNonFatal ==
  /\ [](\A id \in AnalysisIds :
          Exists(id) => rec[id].error # "progress transport error")
  /\ [][\A id \in AnalysisIds :
          (pc[id] \in DOMAIN Percentage /\ pc'[id] # pc[id]) =>
             /\ pc'[id] = AfterProgress[pc[id]]
             /\ job'[id].progress \in {job[id].progress, Percentage[pc[id]]}]_vars

\* C12: cancelJob removes a job only while it waits for its first attempt;
\* it never removes a job a worker is processing, and a job it removed is
\* not processed afterwards.
C12_CancelOnlyNotStarted ==
  /\ [](\A id \in AnalysisIds :
          cancelled[id] => (job[id].state = "absent" /\ pc[id] = "idle"))
  /\ [][\A id \in AnalysisIds :
          (cancelled'[id] /\ ~cancelled[id]) =>
             (job[id].state = "waiting" /\ job[id].attemptsMade = 0)]_vars

\* C13: once the Analysis row of an id is deleted, no FileTree row and no
\* ParsedFile row of that id exists, then and in every later state, also when
\* an attempt for the id is running and reaches its save steps afterwards.
C13_NoRowsAfterDelete ==
  \A id \in AnalysisIds :
    ~Exists(id) => (~fileTree[id] /\ ~parsedFiles[id])

\* C13 witness: the record was deleted while an attempt was past its clone,
\* and a save of that attempt was refused.
C13_Witness ==
  \E id \in AnalysisIds :
    /\ post[id] = "done"
    /\ ~Exists(id)
    /\ pc[id] = "catch"
    /\ localPath[id] # NoDir
    /\ thrown[id] = "store error"

\* C14: when fetchRepoMetadata threw in every attempt of a job, the record
\* is failed, its error is the message the fetch threw, there is no FileTree
\* row and GET /analysis/:id/tree answers 404.
C14_FetchFailureEndsFailed ==
  \A id \in AnalysisIds :
    (job[id].state = "failed" /\ fetchThrows[id] = MaxAttempts /\ Exists(id)) =>
       /\ Status(id) = "failed"
       /\ rec[id].error = fetchError[id]
       /\ ~fileTree[id]
       /\ TreeResponse(id) = "404 tree"

RECURSIVE NodesOf(_)
\* The nodes reached by traversing a tree from the node n.
NodesOf(n) ==
  {n} \cup UNION {NodesOf(n.children[i]) : i \in 1..Len(n.children)}

\* buildFileTree has returned.
TreeBuilt == walk \in {"built", "measured", "saved", "served"}

\* calculateMetrics has returned.
Measured == walk \in {"measured", "saved", "served"}

\* The working copy holding a.ts, b.py and node_modules/ignored.js.
Fixture ==
  {<<"a.ts">>, <<"b.py">>, <<"node_modules">>, <<"node_modules", "ignored.js">>}

\* C15: no directory whose name is in the skip list is a child of any node
\* of the tree buildFileTree returns; for the working copy holding a.ts, b.py
\* and node_modules/ignored.js the root's children are exactly a.ts and b.py.
C15_SkippedDirectoriesNotEmitted ==
  TreeBuilt =>
    /\ \A n \in NodesOf(tree) : \A i \in 1..Len(n.children) :
          ~(n.children[i].type = "directory"
              /\ shouldSkipDirectory(n.children[i].name))
    /\ (workingCopy = Fixture /\ unreadable = {}) =>
          {tree.children[i].name : i \in 1..Len(tree.children)} = {"a.ts", "b.py"}

\* The entries of Entries that an ignore rule matches: the default patterns
\* node_modules/** and yarn.lock, the rule b.py of the root .gitignore, and
\* the excludePatterns glob src/**.
Ignored(p) ==
  \/ p \in {<<"node_modules", "ignored.js">>, <<"yarn.lock">>}
  \/ <<".gitignore">> \in workingCopy /\ p = <<"b.py">>
  \/ "src/**" \in options.excludePatterns /\ Len(p) > 1 /\ p[1] = "src"

\* C16: no entry whose relative path matches an ignore rule (default
\* pattern, root .gitignore rule, excludePatterns glob) is a node of the tree
\* buildFileTree returns, and none is counted in the statistics.
C16_IgnoredEntriesAbsent ==
  /\ TreeBuilt => \A n \in NodesOf(tree) : ~Ignored(n.relativePath)
  /\ Measured =>
        statistics.totalFiles <=
          Cardinality({p \in workingCopy \ Directories : ~Ignored(p)})

\* C17: for a working copy with no files the root has empty children, the
\* statistics of calculateMetrics are all zero, and the averageFileSize of
\* calculateMetrics and of GET /analysis/:id/tree is 0.
C17_EmptyWorkingCopyAllZero ==
  workingCopy = {} =>
    /\ TreeBuilt => (tree.hasChildren /\ tree.children = <<>>)
    /\ Measured => statistics = ZeroStatistics
    /\ walk = "served" =>
          (treeBody.averageFileSize = <<0>> /\ treeBody.totalDirectories = 0)

\* C18: totalFiles and totalDirectories of calculateMetrics are the numbers
\* of file nodes and of directory nodes reached from the root of the tree,
\* and the FileTree row holds exactly these values.
C18_TotalsCountNodes ==
  /\ Measured =>
        /\ statistics.totalFiles =
             Cardinality({n \in NodesOf(tree) : n.type = "file"})
        /\ statistics.totalDirectories =
             Cardinality({n \in NodesOf(tree) : n.type = "directory"})
  /\ walk \in {"saved", "served"} =>
        /\ artifact.totalFiles = statistics.totalFiles
        /\ artifact.totalDirectories = statistics.totalDirectories

\* C18 witness: a row was saved for a tree with files, directories and a
\* skipped directory.
C18_Witness ==
  /\ walk = "saved"
  /\ artifact.totalFiles >= 3
  /\ artifact.totalDirectories >= 3
  /\ \E n \in NodesOf(tree) : n.type = "directory" /\ ~n.hasChildren

\* C19: in one window at most 10 POST /analyze requests of the client pass
\* the strict limiter; a request after the 10th is answered 429 and its
\* handler, which creates the record and the job, does not run.
C19_AtMostTenPerWindow ==
  /\ passed <= StrictMax
  /\ sent > StrictMax =>
        /\ response["POST /analyze"].status = 429
        /\ ~response["POST /analyze"].handlerRan

\* C19 as it holds: unless NODE_ENV is development and API_KEY is unset (the
\* limiter is then skipped), at most 10 POST /analyze requests of the client
\* pass the strict limiter in one of its windows, and a request that is the
\* 11th or a later hit of the window is answered 429 without its handler
\* running.
C19_AtMostTenUnlessSkipped ==
  ~(nodeEnv = "development" /\ apiKey = NoKey) =>
    /\ passed <= StrictMax
    /\ strictHits > StrictMax =>
          /\ response["POST /analyze"].status = 429
          /\ ~response["POST /analyze"].handlerRan

\* C19 witness: the limiter is in force and the 11th request of the window
\* was refused after ten passed.
C19_Witness ==
  /\ ~(nodeEnv = "development" /\ apiKey = NoKey)
  /\ strictHits = StrictMax + 1
  /\ passed = StrictMax
  /\ response["POST /analyze"].status = 429

\* C20: when API_KEY is set, a request whose x-api-key header is not the
\* configured value is answered 401 and its route handler does not run; a
\* request without the header reaches a handler only when API_KEY is unset in
\* development.
C20_ApiKeyRequired ==
  \A r \in Routes :
    request[r].sent =>
      /\ (apiKey # NoKey /\ request[r].header # apiKey) =>
            (response[r].status = 401 /\ ~response[r].handlerRan)
      /\ (response[r].handlerRan /\ request[r].header = NoKey) =>
            (apiKey = NoKey /\ nodeEnv = "development")

\* C21: POST /analyze answers 503 when the metadata API responds 403 or 5xx
\* or cannot be reached, and answers 404 only when the API reports the
\* repository as not found; in neither case does a record or a job exist.
C21_UpstreamFailureAnswers503 ==
  \A id \in AnalysisIds :
    /\ (post[id] = "rejected"
          /\ upstream[id] \in {"forbidden", "serverError", "unreachable"})
         => postAnswer[id] = "503"
    /\ postAnswer[id] = "404" => upstream[id] = "notFound"
    /\ post[id] = "rejected" => (~Exists(id) /\ job[id].state = "absent")

\* The labels of processAnalysisJob after fileTreeRepository.save returned.
AfterSaveTree ==
  {"p65", "scan", "parse", "p85", "saveParsed", "rm", "p100", "complete",
   "return"}

\* C22: once a FileTree row is left by an attempt that failed after saving
\* it, no later attempt of the job gets past the file-tree save (the insert
\* is refused, the attempt goes to its catch block) and the record never
\* reaches completed.
C22_StaleTreeBlocksCompletion ==
  /\ \A id \in AnalysisIds :
       treeFromFailed[id] =>
         /\ fileTree[id]
         /\ pc[id] \notin AfterSaveTree
         /\ Status(id) # "completed"
         /\ job[id].state # "completed"
  /\ [][\A id \in AnalysisIds :
          (treeFromFailed[id] /\ pc[id] = "saveTree" /\ pc'[id] # "saveTree")
            => (pc'[id] = "catch" /\ thrown'[id] = "store error")]_vars

\* C22 witness: a later attempt of a job whose earlier attempt left a
\* FileTree row has been refused at the save step (progress 50 is the last
\* one published) and is in its catch block.
C22_Witness ==
  \E id \in AnalysisIds :
    /\ treeFromFailed[id]
    /\ job[id].attemptsMade >= 1
    /\ job[id].progress = 50
    /\ pc[id] = "catch"
    /\ thrown[id] = "store error"
    /\ Exists(id)

C26_QueuedRecordHasJob ==
  \A id \in AnalysisIds :
    (/\ post[id] \in {"done", "error", "rejected"}
     /\ Exists(id)
     /\ Status(id) = "queued"
     /\ ~cancelled[id])
      => job[id].state # "absent"

\* C27: after DELETE /analysis/:id has succeeded for an analysis whose job is
\* still waiting in the queue, no worker ever starts that job: the processor
\* is never entered for the id, so no fetch, clone or store write happens and
\* no working copy of the id exists.
C27_DeletedWaitingNeverStarted ==
  \A id \in AnalysisIds :
    deletedWaiting[id] =>
      /\ pc[id] = "idle"
      /\ job[id].state \in {"waiting", "absent"}
      /\ job[id].attemptsMade = 0
      /\ ~Exists(id) /\ ~fileTree[id] /\ ~parsedFiles[id]
      /\ \A d \in disk : d[1] # id

C29_StoredShaIsWalkedCommit ==
  recordStatus = "completed" => storedSha = cloneSha

\* The paths of the saved ParsedFile rows.
SavedPaths == {row.path : row \in parsedRows}

\* C25: for every file handed to the parse step, an exception raised while
\* reading or parsing it is caught: the file is omitted from the saved
\* ParsedFile set, the other files' rows are saved, and no rejection leaves
\* parseFile.
C25_FailedFilesOmitted ==
  /\ \A f \in ParseableFiles : parseResult[f] # Rejected
  /\ parseStep = "saved" =>
       \A f \in ParseableFiles :
         /\ condition[f] \in {"readFails", "syntaxError"} => f \notin SavedPaths
         /\ condition[f] = "ok" => f \in SavedPaths

\* C28: on a termination signal the server stops accepting connections; the
\* queue is closed only after the in-flight handlers have finished, the store
\* connections (database, Redis) are closed only after the queue has been
\* closed, and the forced exit comes 30 s after the signal.
C28_ShutdownOrder ==
  /\ signalled => ~listening
  /\ queue # "open" => inflight = 0
  /\ (database = "closed" \/ redis = "closed") => queue = "closed"
  /\ exited = "forced" => elapsed = ForceExitAfter

\* C24: the tree walk does not follow symbolic links: a link that points to
\* a directory is emitted as a file node and nothing is emitted below it, and
\* every node of the tree describes an entry inside the working-copy root.
C24_SymlinksNotFollowed ==
  (TreeBuilt /\ linkTarget # NoLink) =>
    \A n \in NodesOf(tree) :
      /\ n.relativePath = LinkEntry => (n.type = "file" /\ ~n.hasChildren)
      /\ (n.relativePath # <<>> /\ n.relativePath[1] = LinkEntry[1])
           => n.relativePath = LinkEntry
      /\ Real(n.relativePath) \notin OutsideEntries \cup {Outside}

====
